---- MODULE Spec2Model ----
(***************************************************************************)
(* A model of the CRM backend of src/index.js: the three collections       *)
(* (Lead, SalesAgent, Comment), the write handlers with their awaits as    *)
(* interleaving points, and the three reports.                             *)
(*                                                                         *)
(* A request that is suspended at an await is held in a slot p \in Procs   *)
(* (pc[p], req[p]).  The synchronous prefix of a handler together with its *)
(* first store call is one step; every later store call is a step of its   *)
(* own, so that other requests may run between two store calls of one      *)
(* handler.  resp is the HTTP response sent by the step just taken         *)
(* (NoResp when the step sent none).                                       *)
(***************************************************************************)
EXTENDS Integers, Sequences, FiniteSets, TLC

\* ------------------------------------------------------------------ bounds
NumProcs == 2
MaxAgents == 2
MaxLeads == 2
MaxComments == 1
MaxTime == 8

\* lastWeek.setDate(lastWeek.getDate() - 7): the window of the report, in days
Week == 7

VARIABLES agents, leads, comments, nextAgent, nextLead, nextComment, now, pc, req, resp

stores == <<agents, leads, comments>>
vars == <<agents, leads, comments, nextAgent, nextLead, nextComment, now, pc, req, resp>>

Procs == 1 .. NumProcs

\* ------------------------------------------------------------ JSON values
\* A scalar of a request body is written as its JSON text; "undefined" is a
\* key that is absent from the body.
Falsy == {"undefined", "null", "", "0"}

\* JavaScript's !v on a scalar or an array: an array, empty or not, is truthy.
Not(v) == v \in Falsy

\* An id of a request is a number; NoId is the id that is absent (undefined,
\* null or the empty string, all falsy).
NoId == 0

NotId(i) == i = NoId

NoDate == -1

NullDoc == [null |-> TRUE]

NoReq == [leadId |-> NoId, data |-> NullDoc]

NoResp == [op |-> "none"]

\* ------------------------------------------------------------ store reads
AgentById(id) == IF \E a \in agents : a._id = id THEN CHOOSE a \in agents : a._id = id ELSE NullDoc

AgentByEmail(email) == IF \E a \in agents : a.email = email THEN CHOOSE a \in agents : a.email = email ELSE NullDoc

LeadById(id) == IF \E l \in leads : l._id = id THEN CHOOSE l \in leads : l._id = id ELSE NullDoc

\* .populate("salesAgent"): the reference is replaced by the referenced
\* document, or by null when there is none.  SalesAgent documents are never
\* changed or deleted, so the second query of populate reads what a read in
\* the same step as the first reads.
Populate(doc) == IF doc = NullDoc THEN NullDoc ELSE [doc EXCEPT !.salesAgent = AgentById(doc.salesAgent)]

\* ------------------------------------------------------------- validation
MissingLeadField(data) == \/ Not(data.name)
                          \/ Not(data.source)
                          \/ NotId(data.salesAgent)
                          \/ Not(data.status)
                          \/ Not(data.timeToClose)
                          \/ Not(data.priority)
                          \/ Not(data.tags)

MissingAgentField(data) == Not(data.name) \/ Not(data.email)

MissingCommentField(data) == Not(data.commentText) \/ NotId(data.author)

\* ----------------------------------------------------------------- schema
\* closedAt of a Lead written with the given status at the given time: set
\* when the status is "Closed", otherwise what it was.
LeadSchemaClosedAt(status, old, t) == IF status = "Closed" THEN t ELSE old

\* The SalesAgent collection carries no unique index on email: a save is
\* accepted whatever the collection holds.
SalesAgentSchemaAccepts(doc) == TRUE

\* ---------------------------------------------------------------- documents
NewLead(id, data, t) == [_id |-> id, name |-> data.name, source |-> data.source,
                         salesAgent |-> data.salesAgent, status |-> data.status,
                         timeToClose |-> data.timeToClose, priority |-> data.priority,
                         tags |-> data.tags,
                         closedAt |-> LeadSchemaClosedAt(data.status, NoDate, t)]

UpdatedLead(old, data, t) == [old EXCEPT !.name = data.name, !.source = data.source,
                              !.salesAgent = data.salesAgent, !.status = data.status,
                              !.timeToClose = data.timeToClose, !.priority = data.priority,
                              !.tags = data.tags,
                              !.closedAt = LeadSchemaClosedAt(data.status, old.closedAt, t)]

NewAgent(id, data) == [_id |-> id, name |-> data.name, email |-> data.email]

NewComment(id, leadId, data) == [_id |-> id, lead |-> leadId, commentText |-> data.commentText,
                                 author |-> data.author]

\* ---------------------------------------------------------------- responses
\* calls and writes count the store calls and the store writes the request
\* issued before it was answered.
Response(op, leadId, data, status, body, calls, writes) ==
    [op |-> op, leadId |-> leadId, data |-> data, status |-> status, body |-> body,
     calls |-> calls, writes |-> writes]

Error(msg) == [error |-> msg]

\* ----------------------------------------------------------- POST /leads
\* createLead with lead.save() moved above the agent check.
CreateLeadCheckSaveFirst(p, data) ==
    /\ pc[p] = "idle"
    /\ IF MissingLeadField(data)
       THEN /\ resp' = Response("createLead", NoId, data, 400, Error("All fields are required"), 0, 0)
            /\ UNCHANGED <<pc, req, leads, nextLead>>
       ELSE /\ leads' = leads \cup {NewLead(nextLead, data, now)}
            /\ nextLead' = nextLead + 1
            /\ IF AgentById(data.salesAgent) = NullDoc
               THEN /\ resp' = Response("createLead", NoId, data, 400, Error("Sales agent not found"), 2, 1)
                    /\ UNCHANGED <<pc, req>>
               ELSE /\ pc' = [pc EXCEPT ![p] = "cl_populate"]
                    /\ req' = [req EXCEPT ![p] = [leadId |-> nextLead, data |-> data]]
                    /\ resp' = NoResp
    /\ UNCHANGED <<agents, comments, nextAgent, nextComment, now>>

CreateLeadCheck(p, data) ==
    /\ pc[p] = "idle"
    /\ IF MissingLeadField(data)
       THEN /\ resp' = Response("createLead", NoId, data, 400, Error("All fields are required"), 0, 0)
            /\ UNCHANGED <<pc, req>>
       ELSE IF AgentById(data.salesAgent) = NullDoc
            THEN /\ resp' = Response("createLead", NoId, data, 400, Error("Sales agent not found"), 1, 0)
                 /\ UNCHANGED <<pc, req>>
            ELSE /\ pc' = [pc EXCEPT ![p] = "cl_save"]
                 /\ req' = [req EXCEPT ![p] = [leadId |-> NoId, data |-> data]]
                 /\ resp' = NoResp
    /\ UNCHANGED <<agents, leads, comments, nextAgent, nextLead, nextComment, now>>

CreateLeadSave(p) ==
    /\ pc[p] = "cl_save"
    /\ leads' = leads \cup {NewLead(nextLead, req[p].data, now)}
    /\ nextLead' = nextLead + 1
    /\ req' = [req EXCEPT ![p].leadId = nextLead]
    /\ pc' = [pc EXCEPT ![p] = "cl_populate"]
    /\ resp' = NoResp
    /\ UNCHANGED <<agents, comments, nextAgent, nextComment, now>>

CreateLeadPopulate(p) ==
    /\ pc[p] = "cl_populate"
    /\ resp' = Response("createLead", req[p].leadId, req[p].data, 201,
                        Populate(LeadById(req[p].leadId)), 3, 1)
    /\ pc' = [pc EXCEPT ![p] = "idle"]
    /\ req' = [req EXCEPT ![p] = NoReq]
    /\ UNCHANGED <<agents, leads, comments, nextAgent, nextLead, nextComment, now>>

\* ------------------------------------------------------- POST /leads/:id
UpdateLeadCheck(p, leadId, data) ==
    /\ pc[p] = "idle"
    /\ IF MissingLeadField(data)
       THEN /\ resp' = Response("updateLead", leadId, data, 400, Error("All fields are required"), 0, 0)
            /\ UNCHANGED <<pc, req>>
       ELSE IF AgentById(data.salesAgent) = NullDoc
            THEN /\ resp' = Response("updateLead", leadId, data, 400, Error("Sales agent not found"), 1, 0)
                 /\ UNCHANGED <<pc, req>>
            ELSE /\ pc' = [pc EXCEPT ![p] = "ul_update"]
                 /\ req' = [req EXCEPT ![p] = [leadId |-> leadId, data |-> data]]
                 /\ resp' = NoResp
    /\ UNCHANGED <<agents, leads, comments, nextAgent, nextLead, nextComment, now>>

\* findByIdAndUpdate with { upsert: true }.
FindByIdAndUpdateUpsert(leadId, data, t) ==
    IF LeadById(leadId) = NullDoc
    THEN leads \cup {NewLead(leadId, data, t)}
    ELSE (leads \ {LeadById(leadId)}) \cup {UpdatedLead(LeadById(leadId), data, t)}

\* Lead.findByIdAndUpdate(leadId, {...}, { new: true }): no upsert option, so
\* an id that matches no document writes nothing and yields null.
FindByIdAndUpdate(leadId, data, t) ==
    IF LeadById(leadId) = NullDoc
    THEN leads
    ELSE (leads \ {LeadById(leadId)}) \cup {UpdatedLead(LeadById(leadId), data, t)}

UpdateLeadApply(p) ==
    /\ pc[p] = "ul_update"
    /\ leads' = FindByIdAndUpdate(req[p].leadId, req[p].data, now)
    /\ resp' = IF LeadById(req[p].leadId) = NullDoc
               THEN Response("updateLead", req[p].leadId, req[p].data, 404, Error("Lead not found"), 2, 0)
               ELSE Response("updateLead", req[p].leadId, req[p].data, 200,
                             Populate(UpdatedLead(LeadById(req[p].leadId), req[p].data, now)), 2, 1)
    /\ pc' = [pc EXCEPT ![p] = "idle"]
    /\ req' = [req EXCEPT ![p] = NoReq]
    /\ UNCHANGED <<agents, comments, nextAgent, nextLead, nextComment, now>>

\* ----------------------------------------------------- DELETE /leads/:id
DeleteLead(leadId) ==
    /\ leads' = leads \ {LeadById(leadId)}
    /\ resp' = IF LeadById(leadId) = NullDoc
               THEN Response("deleteLead", leadId, NullDoc, 404, Error("Lead not found"), 1, 0)
               ELSE Response("deleteLead", leadId, NullDoc, 200,
                             [message |-> "Lead deleted successfully"], 1, 1)
    /\ UNCHANGED <<agents, comments, nextAgent, nextLead, nextComment, now, pc, req>>

\* ---------------------------------------------------------- POST /agents
CreateAgentCheck(p, data) ==
    /\ pc[p] = "idle"
    /\ IF MissingAgentField(data)
       THEN /\ resp' = Response("createAgent", NoId, data, 400, Error("Name and email are required"), 0, 0)
            /\ UNCHANGED <<pc, req>>
       ELSE IF AgentByEmail(data.email) # NullDoc
            THEN /\ resp' = Response("createAgent", NoId, data, 400,
                                     Error("Sales agent with this email already exists"), 1, 0)
                 /\ UNCHANGED <<pc, req>>
            ELSE /\ pc' = [pc EXCEPT ![p] = "ca_save"]
                 /\ req' = [req EXCEPT ![p] = [leadId |-> NoId, data |-> data]]
                 /\ resp' = NoResp
    /\ UNCHANGED <<agents, leads, comments, nextAgent, nextLead, nextComment, now>>

CreateAgentSave(p) ==
    /\ pc[p] = "ca_save"
    /\ SalesAgentSchemaAccepts(NewAgent(nextAgent, req[p].data))
    /\ agents' = agents \cup {NewAgent(nextAgent, req[p].data)}
    /\ nextAgent' = nextAgent + 1
    /\ resp' = Response("createAgent", NoId, req[p].data, 201, NewAgent(nextAgent, req[p].data), 2, 1)
    /\ pc' = [pc EXCEPT ![p] = "idle"]
    /\ req' = [req EXCEPT ![p] = NoReq]
    /\ UNCHANGED <<leads, comments, nextLead, nextComment, now>>

\* ---------------------------------------------- POST /leads/:id/comments
\* createComment with the lead looked up before the fields are checked.
CreateCommentCheckLeadFirst(p, leadId, data) ==
    /\ pc[p] = "idle"
    /\ IF LeadById(leadId) = NullDoc
       THEN /\ resp' = Response("createComment", leadId, data, 400, Error("Lead not found"), 1, 0)
            /\ UNCHANGED <<pc, req>>
       ELSE IF MissingCommentField(data)
            THEN /\ resp' = Response("createComment", leadId, data, 400,
                                     Error("Comment text and author are required"), 1, 0)
                 /\ UNCHANGED <<pc, req>>
            ELSE /\ pc' = [pc EXCEPT ![p] = "cc_author"]
                 /\ req' = [req EXCEPT ![p] = [leadId |-> leadId, data |-> data]]
                 /\ resp' = NoResp
    /\ UNCHANGED <<agents, leads, comments, nextAgent, nextLead, nextComment, now>>

CreateCommentCheck(p, leadId, data) ==
    /\ pc[p] = "idle"
    /\ IF MissingCommentField(data)
       THEN /\ resp' = Response("createComment", leadId, data, 400,
                                Error("Comment text and author are required"), 0, 0)
            /\ UNCHANGED <<pc, req>>
       ELSE IF LeadById(leadId) = NullDoc
            THEN /\ resp' = Response("createComment", leadId, data, 400, Error("Lead not found"), 1, 0)
                 /\ UNCHANGED <<pc, req>>
            ELSE /\ pc' = [pc EXCEPT ![p] = "cc_author"]
                 /\ req' = [req EXCEPT ![p] = [leadId |-> leadId, data |-> data]]
                 /\ resp' = NoResp
    /\ UNCHANGED <<agents, leads, comments, nextAgent, nextLead, nextComment, now>>

CreateCommentAuthor(p) ==
    /\ pc[p] = "cc_author"
    /\ IF AgentById(req[p].data.author) = NullDoc
       THEN /\ resp' = Response("createComment", req[p].leadId, req[p].data, 400,
                                Error("Author not found"), 2, 0)
            /\ pc' = [pc EXCEPT ![p] = "idle"]
            /\ req' = [req EXCEPT ![p] = NoReq]
       ELSE /\ pc' = [pc EXCEPT ![p] = "cc_save"]
            /\ resp' = NoResp
            /\ UNCHANGED req
    /\ UNCHANGED <<agents, leads, comments, nextAgent, nextLead, nextComment, now>>

CreateCommentSave(p) ==
    /\ pc[p] = "cc_save"
    /\ comments' = comments \cup {NewComment(nextComment, req[p].leadId, req[p].data)}
    /\ nextComment' = nextComment + 1
    /\ resp' = Response("createComment", req[p].leadId, req[p].data, 201,
                        NewComment(nextComment, req[p].leadId, req[p].data), 3, 1)
    /\ pc' = [pc EXCEPT ![p] = "idle"]
    /\ req' = [req EXCEPT ![p] = NoReq]
    /\ UNCHANGED <<agents, leads, nextAgent, nextLead, now>>

\* ------------------------------------------------------------------ reports
\* countDocuments without its filter.
PipelineCountAll == Cardinality(leads)

\* Lead.countDocuments({ status: { $ne: "Closed" } })
PipelineCount == Cardinality({l \in leads : l.status # "Closed"})

ReadPipelineReport ==
    /\ resp' = Response("pipeline", NoId, NullDoc, 200, [totalLeadsInPipeline |-> PipelineCount], 1, 0)
    /\ UNCHANGED <<agents, leads, comments, nextAgent, nextLead, nextComment, now, pc, req>>

\* The report with $gt in place of $gte.
ClosedLastWeekStrict(t) == {l \in leads : /\ l.status = "Closed"
                                          /\ l.closedAt # NoDate
                                          /\ l.closedAt > t - Week}

\* Lead.find({ status: "Closed", closedAt: { $gte: lastWeek } }): a document
\* without closedAt matches no $gte.
ClosedLastWeek(t) == {l \in leads : /\ l.status = "Closed"
                                    /\ l.closedAt # NoDate
                                    /\ l.closedAt >= t - Week}

ReadLeadsClosedLastWeek ==
    /\ resp' = IF ClosedLastWeek(now) = {}
               THEN Response("lastWeek", NoId, NullDoc, 404, Error("No leads found for last week"), 1, 0)
               ELSE Response("lastWeek", NoId, NullDoc, 200, {Populate(l) : l \in ClosedLastWeek(now)}, 1, 0)
    /\ UNCHANGED <<agents, leads, comments, nextAgent, nextLead, nextComment, now, pc, req>>

\* The aggregation of readClosedLeadsByAgent, stage by stage.
\* The aggregation without its $match stage.
MatchAll == leads

MatchClosed == {l \in leads : l.status = "Closed"}

GroupBySalesAgent == {[_id |-> a, count |-> Cardinality({l \in MatchClosed : l.salesAgent = a})] :
                        a \in {l.salesAgent : l \in MatchClosed}}

\* $lookup joins the SalesAgent whose _id is the group's key, and $unwind
\* drops a group the lookup found no agent for.
LookupUnwind == {[_id |-> g._id, count |-> g.count, salesAgent |-> AgentById(g._id)] :
                   g \in {h \in GroupBySalesAgent : AgentById(h._id) # NullDoc}}

RECURSIVE ProjectSeq(_)
\* $project { _id: 0, salesAgent: "$salesAgent.name", count: 1 }; the result
\* is an array, here in the order of the group keys.
ProjectSeq(S) == IF S = {} THEN <<>>
                 ELSE LET g == CHOOSE x \in S : \A y \in S : x._id <= y._id
                      IN <<[salesAgent |-> g.salesAgent.name, count |-> g.count]>> \o ProjectSeq(S \ {g})

ClosedLeadsByAgent == ProjectSeq(LookupUnwind)

ReadClosedLeadsByAgent ==
    /\ resp' = IF ClosedLeadsByAgent = <<>>
               THEN Response("closedByAgent", NoId, NullDoc, 404, Error("No closed leads found"), 1, 0)
               ELSE Response("closedByAgent", NoId, NullDoc, 200, ClosedLeadsByAgent, 1, 0)
    /\ UNCHANGED <<agents, leads, comments, nextAgent, nextLead, nextComment, now, pc, req>>

\* -------------------------------------------------------------------- clock
Tick ==
    /\ now < MaxTime
    /\ now' = now + 1
    /\ resp' = NoResp
    /\ UNCHANGED <<agents, leads, comments, nextAgent, nextLead, nextComment, pc, req>>

\* ------------------------------------------------------------------- inputs
GoodLeadBodies == [name : {"Acme"}, source : {"Referral"}, salesAgent : 1 .. MaxAgents,
                   status : {"New", "Closed"}, timeToClose : {"5"}, priority : {"High"},
                   tags : {"[hot]"}]

Absent == {"undefined", "null"}

\* The bodies with one field absent or empty.
DefectiveLeadBodies ==
    UNION {  {[b EXCEPT !.name = v] : v \in Absent \cup {""}}
        \cup {[b EXCEPT !.source = v] : v \in Absent \cup {""}}
        \cup {[b EXCEPT !.status = v] : v \in Absent \cup {""}}
        \cup {[b EXCEPT !.timeToClose = v] : v \in Absent \cup {"0"}}
        \cup {[b EXCEPT !.priority = v] : v \in Absent \cup {""}}
        \cup {[b EXCEPT !.tags = v] : v \in Absent \cup {"[]"}}
        \cup {[b EXCEPT !.salesAgent = NoId]} : b \in {g \in GoodLeadBodies : g.status = "New"}}

LeadBodies == {g \in GoodLeadBodies : g.status = "New"} \cup DefectiveLeadBodies

FewLeadBodies == {b \in GoodLeadBodies : b.status = "New"}
                    \cup {[b EXCEPT !.name = "undefined"] :
                             b \in {g \in GoodLeadBodies : g.status = "New" /\ g.salesAgent = 1}}

GoodAgentBodies == {[name |-> "Ann", email |-> "a@x.com"], [name |-> "Bob", email |-> "a@x.com"],
                    [name |-> "Bob", email |-> "b@x.com"]}

FewAgentBodies == GoodAgentBodies \cup {[name |-> "undefined", email |-> "a@x.com"]}

AgentBodies == [name : {"undefined", "Ann"}, email : {"undefined", "", "a@x.com"}]

CommentBodies == [commentText : {"undefined", "", "call back"}, author : 0 .. MaxAgents]

FewCommentBodies == [commentText : {"call back"}, author : 1 .. MaxAgents]
                       \cup {[commentText |-> "undefined", author |-> 1]}

LeadIds == 1 .. MaxLeads

\* Room under the bounds for one more document of a collection, the requests
\* already past their checks counted in.
LeadRoom == nextLead + Cardinality({q \in Procs : pc[q] = "cl_save"}) <= MaxLeads

AgentRoom == nextAgent + Cardinality({q \in Procs : pc[q] = "ca_save"}) <= MaxAgents

CommentRoom == nextComment + Cardinality({q \in Procs : pc[q] \in {"cc_author", "cc_save"}}) <= MaxComments

\* ----------------------------------------------------------- specifications
Init ==
    /\ agents = {}
    /\ leads = {}
    /\ comments = {}
    /\ nextAgent = 1
    /\ nextLead = 1
    /\ nextComment = 1
    /\ now = 0
    /\ pc = [p \in Procs |-> "idle"]
    /\ req = [p \in Procs |-> NoReq]
    /\ resp = NoResp

\* The lead and agent handlers, for the slots P and the bodies LB and AB.
LeadWrites(P, LB) ==
    \/ \E p \in P, d \in LB : LeadRoom /\ CreateLeadCheck(p, d)
    \/ \E p \in P : CreateLeadSave(p)
    \/ \E p \in P : CreateLeadPopulate(p)
    \/ \E p \in P, i \in LeadIds, d \in LB : UpdateLeadCheck(p, i, d)
    \/ \E p \in P : UpdateLeadApply(p)
    \/ \E i \in LeadIds : DeleteLead(i)

AgentWrites(P, AB) ==
    \/ \E p \in P, d \in AB : AgentRoom /\ CreateAgentCheck(p, d)
    \/ \E p \in P : CreateAgentSave(p)

CommentWrites(P, CB) ==
    \/ \E p \in P, i \in LeadIds, d \in CB : CommentRoom /\ CreateCommentCheck(p, i, d)
    \/ \E p \in P : CreateCommentAuthor(p)
    \/ \E p \in P : CreateCommentSave(p)

\* Concurrent write requests, a few bodies.
Next ==
    \/ LeadWrites(Procs, FewLeadBodies)
    \/ AgentWrites(Procs, FewAgentBodies)
    \/ CommentWrites(Procs, FewCommentBodies)

Spec == Init /\ [][Next]_vars

\* One write request at a time, every body.
ValidationNext ==
    \/ LeadWrites({1}, LeadBodies)
    \/ AgentWrites({1}, AgentBodies)
    \/ CommentWrites({1}, CommentBodies)

ValidationSpec == Init /\ [][ValidationNext]_vars

\* One write request at a time, and the reports on the leads.
ReportNext ==
    \/ LeadWrites({1}, GoodLeadBodies)
    \/ AgentWrites({1}, GoodAgentBodies)
    \/ ReadPipelineReport
    \/ ReadClosedLeadsByAgent

ReportSpec == Init /\ [][ReportNext]_vars

\* One write request at a time, the clock, and the report of the last week.
ClockNext ==
    \/ Tick
    \/ LeadWrites({1}, GoodLeadBodies)
    \/ AgentWrites({1}, {[name |-> "Ann", email |-> "a@x.com"]})
    \/ ReadLeadsClosedLastWeek

ClockSpec == Init /\ [][ClockNext]_vars

\* ------------------------------------------------------------------- claims
WriteOps == {"createLead", "updateLead", "createAgent", "createComment"}

\* C1: a write request that is answered 400 (missing field, unknown
\* salesAgent, lead or author, duplicate email) has issued no write, and the
\* step that answers it changes none of the three collections; a create-lead
\* whose salesAgent matches no agent is answered 400 with the leads unchanged,
\* and never gets as far as its save.
C1_FailedWriteLeavesStore ==
    /\ [][(resp'.op \in WriteOps /\ resp'.status = 400)
            => (resp'.writes = 0 /\ stores' = stores)]_vars
    /\ [][(resp'.op = "createLead" /\ AgentById(resp'.data.salesAgent) = NullDoc)
            => (resp'.status = 400 /\ leads' = leads)]_vars
    /\ [](\A p \in Procs : pc[p] = "cl_save" => AgentById(req[p].data.salesAgent) # NullDoc)

C1_Witness ==
    /\ resp.op = "createLead"
    /\ resp.status = 400
    /\ resp.body = Error("Sales agent not found")
    /\ leads # {}

\* C2: no two SalesAgent documents hold the same email.
C2_EmailUnique == \A a \in agents : \A b \in agents : a.email = b.email => a = b

\* C3: a create-lead that is answered 201 returns the lead it saved, with
\* salesAgent resolved to the agent its request named.
C3_CreateLeadReturnsLead ==
    (resp.op = "createLead" /\ resp.status = 201)
        => /\ resp.body # NullDoc
           /\ resp.body._id = resp.leadId
           /\ resp.body.salesAgent = AgentById(resp.data.salesAgent)

\* What C4 calls missing, empty or null.
AbsentOrEmpty(v) == v \in {"undefined", "null", "", "[]"}

AnyLeadFieldAbsentOrEmpty(data) ==
    \/ AbsentOrEmpty(data.name)
    \/ AbsentOrEmpty(data.source)
    \/ data.salesAgent = NoId
    \/ AbsentOrEmpty(data.status)
    \/ AbsentOrEmpty(data.timeToClose)
    \/ AbsentOrEmpty(data.priority)
    \/ AbsentOrEmpty(data.tags)

\* C4: a create-lead or update-lead one of whose mandatory fields is missing,
\* empty (the empty string, the empty tags collection) or null is answered 400
\* and writes nothing.
C4_EmptyFieldRejected ==
    (resp.op \in {"createLead", "updateLead"} /\ AnyLeadFieldAbsentOrEmpty(resp.data))
        => (resp.status = 400 /\ resp.writes = 0)

\* C5: a comment that a step saves names a lead that exists when it is saved.
C5_SavedCommentHasLead ==
    [][\A c \in comments' \ comments : \E l \in leads' : l._id = c.lead]_vars

\* C6: the pipeline report is answered 200 with the number of leads whose
\* status is not "Closed", it changes no collection, and a report that follows
\* a report returns the same count.
C6_PipelineCount ==
    /\ [](resp.op = "pipeline"
            => /\ resp.status = 200
               /\ resp.body.totalLeadsInPipeline
                    = Cardinality(leads) - Cardinality({l \in leads : l.status = "Closed"}))
    /\ [][resp'.op = "pipeline" => stores' = stores]_vars
    /\ [][(resp.op = "pipeline" /\ resp'.op = "pipeline") => resp'.body = resp.body]_vars

C6_Witness ==
    /\ resp.op = "pipeline"
    /\ resp.body.totalLeadsInPipeline = 1
    /\ \E l \in leads : l.status = "Closed"

ClosedOf(a) == Cardinality({l \in leads : l.status = "Closed" /\ l.salesAgent = a._id})

EntriesOf(report, name, n) == Cardinality({i \in 1 .. Len(report) :
                                             report[i] = [salesAgent |-> name, count |-> n]})

\* C7: in every state the closed-by-agent report holds one entry for each
\* agent with at least one Closed lead, with that agent's name and the number
\* of its Closed leads, and nothing else; the handler answers with it (404
\* when it is empty).
C7_ClosedByAgent ==
    /\ Len(ClosedLeadsByAgent) = Cardinality({a \in agents : ClosedOf(a) > 0})
    /\ \A a \in agents :
         EntriesOf(ClosedLeadsByAgent, a.name, ClosedOf(a))
           = IF ClosedOf(a) = 0 THEN 0
             ELSE Cardinality({b \in agents : b.name = a.name /\ ClosedOf(b) = ClosedOf(a)})
    /\ \A i \in 1 .. Len(ClosedLeadsByAgent) : ClosedLeadsByAgent[i].count > 0
    /\ resp.op = "closedByAgent"
         => IF ClosedLeadsByAgent = <<>> THEN resp.status = 404
            ELSE resp.status = 200 /\ resp.body = ClosedLeadsByAgent

C7_Witness ==
    /\ resp.op = "closedByAgent"
    /\ resp.status = 200
    /\ Len(resp.body) = 1
    /\ resp.body[1].count = 2
    /\ Cardinality(agents) = 2

ReportedLastWeek == IF resp.status = 200 THEN resp.body ELSE {}

RequiredError(op) ==
    IF op = "createAgent" THEN Error("Name and email are required")
    ELSE IF op = "createComment" THEN Error("Comment text and author are required")
    ELSE Error("All fields are required")

\* The request omits a mandatory field (the key is absent or null).
OmitsField(op, data) ==
    IF op = "createAgent" THEN data.name \in Absent \/ data.email \in Absent
    ELSE IF op = "createComment" THEN data.commentText \in Absent \/ data.author = NoId
    ELSE \/ data.name \in Absent
         \/ data.source \in Absent
         \/ data.salesAgent = NoId
         \/ data.status \in Absent
         \/ data.timeToClose \in Absent
         \/ data.priority \in Absent
         \/ data.tags \in Absent

\* C9: a write request that omits a mandatory field is answered 400 with the
\* required-field message of its handler, whatever its references name, and
\* has issued no store call.
C9_RequiredCheckFirst ==
    (resp.op \in WriteOps /\ OmitsField(resp.op, resp.data))
        => /\ resp.status = 400
           /\ resp.body = RequiredError(resp.op)
           /\ resp.calls = 0
           /\ resp.writes = 0

C9_Witness ==
    /\ resp.op = "createComment"
    /\ resp.data.commentText \in Absent
    /\ LeadById(resp.leadId) = NullDoc
    /\ AgentById(resp.data.author) = NullDoc
    /\ resp.data.author # NoId
    /\ resp.status = 400

\* C10: an update-lead that reaches findByIdAndUpdate when no lead has its id
\* changes none of the three collections and is answered 404 "Lead not found".
C10_UpdateAbsentLead ==
    [][\A p \in Procs :
         (pc[p] = "ul_update" /\ pc'[p] = "idle" /\ LeadById(req[p].leadId) = NullDoc)
           => /\ stores' = stores
              /\ resp'.op = "updateLead"
              /\ resp'.status = 404
              /\ resp'.body = Error("Lead not found")]_vars

\* The lead was there once: a delete-lead removed it.
C10_Witness ==
    /\ resp.op = "updateLead"
    /\ resp.status = 404
    /\ resp.leadId < nextLead
    /\ \E l \in leads : l._id # resp.leadId

====
